---------------------------- MODULE Spec2Model ----------------------------
(***************************************************************************)
(* Model of main.py: the ANSI sanitizer (strip_ansi_codes), the capture    *)
(* bridge (get_agent_response) that redirects the process-wide sys.stdout, *)
(* and the FastAPI handlers (home, search) that run on one event loop and  *)
(* offload the bridge to executor threads.                                 *)
(*                                                                         *)
(* Text is a sequence of Unicode code points, as a Python 3 str is.        *)
(***************************************************************************)
EXTENDS Integers, Sequences, FiniteSets

\* ------------------------------------------------------------ bounds
\* Number of HTTP requests in a run.
NReq == 2
\* Most writes to sys.stdout the agent calls of a run make, all together.
MaxWrites == 2
\* Longest input text of the sanitizer specification.
MaxLen == 6

\* ------------------------------------------------------ text helpers
RECURSIVE Flatten(_)
\* The concatenation of a sequence of texts (successive write() calls).
Flatten(chunks) ==
    IF chunks = <<>> THEN <<>> ELSE Head(chunks) \o Flatten(Tail(chunks))

\* ----------------------------------- strip_ansi_codes (lines 77-80)
\* r'\x1B\[[0-?]*[ -/]*[@-~]'
ESC == 27
LBracket == 91
ParamBytes == 48..63
IntermediateBytes == 32..47
\* Mutant: only letters end a sequence.
FinalBytes_LettersOnly == (65..90) \cup (97..122)
FinalBytes == 64..126

\* The ways the pattern matches at position i: <<p, q>> is the number of
\* characters taken by [0-?]* and by [ -/]*, followed by one of [@-~].
MatchSplits(text, i) ==
    { pq \in (0..Len(text)) \X (0..Len(text)) :
        /\ i + 2 + pq[1] + pq[2] <= Len(text)
        /\ text[i] = ESC
        /\ text[i + 1] = LBracket
        /\ \A k \in 1..pq[1] : text[i + 1 + k] \in ParamBytes
        /\ \A k \in 1..pq[2] : text[i + 1 + pq[1] + k] \in IntermediateBytes
        /\ text[i + 2 + pq[1] + pq[2]] \in FinalBytes }

\* The index of the last character of the match at i, 0 when the pattern
\* does not match there. Both quantifiers are greedy: the engine tries the
\* longest run first and backtracks to shorter ones.
MatchEnd(text, i) ==
    LET S == MatchSplits(text, i) IN
    IF S = {} THEN 0
    ELSE LET best == CHOOSE pq \in S : \A o \in S :
                        \/ pq[1] > o[1]
                        \/ (pq[1] = o[1] /\ pq[2] >= o[2])
         IN i + 2 + best[1] + best[2]

\* ansi_escape.sub('', text): scan left to right, drop each match and resume
\* after it, copy every other character. Sub[pos] is the output for the text
\* from position pos on.
strip_ansi_codes(text) ==
    LET Sub[pos \in 1..(Len(text) + 1)] ==
            IF pos > Len(text) THEN <<>>
            ELSE LET e == MatchEnd(text, pos) IN
                 IF e = 0 THEN <<text[pos]>> \o Sub[pos + 1]
                 ELSE Sub[e + 1]
    IN Sub[1]

\* --------------------------------------------------- str.strip (line 142)
\* The characters Python's str.strip() removes (str.isspace).
PyWhitespace ==
    (9..13) \cup (28..32) \cup {133, 160, 5760} \cup (8192..8202)
        \cup {8232, 8233, 8239, 8287, 12288}

RECURSIVE LStrip(_)
LStrip(text) ==
    IF text # <<>> /\ Head(text) \in PyWhitespace
    THEN LStrip(Tail(text)) ELSE text

RECURSIVE RStrip(_)
RStrip(text) ==
    IF text # <<>> /\ text[Len(text)] \in PyWhitespace
    THEN RStrip(SubSeq(text, 1, Len(text) - 1)) ELSE text

\* result.strip()
PyStrip(text) == RStrip(LStrip(text))

\* ------------------------------------------- literals of search()
\* "An error occurred: "
ErrorPrefix ==
    <<65, 110, 32, 101, 114, 114, 111, 114, 32, 111, 99, 99, 117, 114, 114,
      101, 100, 58, 32>>
\* "No response received from the agent."
Fallback ==
    <<78, 111, 32, 114, 101, 115, 112, 111, 110, 115, 101, 32, 114, 101, 99,
      101, 105, 118, 101, 100, 32, 102, 114, 111, 109, 32, 116, 104, 101, 32,
      97, 103, 101, 110, 116, 46>>
\* HTMLResponse's default status_code.
StatusOK == 200

\* ------------------------------------------------ the environment
Reqs == 1..NReq
\* sys.stdout is the console (the stream installed at start-up) or the
\* StringIO of request r's invocation, named r.
Console == 0
Streams == {Console} \cup Reqs

\* What one write of the agent call can be: "\x1b[1m \n", "Hi\n".
Chunks == { <<27, 91, 49, 109, 32, 10>>, <<72, 105, 10>> }
\* str(e) of the errors the agent call can raise: "timeout", "".
Messages == { <<116, 105, 109, 101, 111, 117, 116>>, <<>> }
\* The alphabet of the sanitizer's inputs: ESC [ ; space m newline.
Alphabet == {27, 91, 59, 32, 109, 10}

NoResponse == [status |-> 0, page |-> "none", result |-> <<>>]

VARIABLES
    pc,           \* where each request is
    kind,         \* "home" or "search", once the handler has started
    loopRunning,  \* the request whose handler runs on the event loop, or 0
    sys_stdout,   \* sys.stdout, process-wide
    capture,      \* capture[r]: the text in the StringIO of r's invocation
    old_stdout,   \* old_stdout[r]: the local of r's invocation
    exc,          \* exc[r]: <<>> or <<m>>, the error the agent call raised
    raw_output,   \* raw_output[r]: capture.getvalue() of r's invocation
    clean_output, \* clean_output[r]: what r's invocation returned
    response,     \* response[r]: what was sent back
    writes,       \* history: the chunks r's agent call wrote, in order
    overlap,      \* history: r's invocation ran while another one did
    text_in,      \* sanitizer specification: the input
    text_out,     \* sanitizer specification: the output
    strip_pc      \* sanitizer specification: "off", "in", "out"

bridgeVars == <<sys_stdout, capture, old_stdout, exc, raw_output, clean_output,
                writes, overlap>>
stripVars == <<text_in, text_out, strip_pc>>
loopVars == <<kind, loopRunning, response>>
vars == <<pc, loopVars, bridgeVars, stripVars>>

\* get_agent_response has been entered and has not yet returned or raised.
Active == {"entered", "capturing", "agent_done", "restored"}
\* Between `sys.stdout = capture` and `sys.stdout = old_stdout`.
CaptureRegion == {"capturing", "agent_done"}

ServerInit ==
    /\ pc = [r \in Reqs |-> "new"]
    /\ kind = [r \in Reqs |-> "none"]
    /\ loopRunning = 0
    /\ sys_stdout = Console
    /\ capture = [r \in Reqs |-> <<>>]
    /\ old_stdout = [r \in Reqs |-> Console]
    /\ exc = [r \in Reqs |-> <<>>]
    /\ raw_output = [r \in Reqs |-> <<>>]
    /\ clean_output = [r \in Reqs |-> <<>>]
    /\ response = [r \in Reqs |-> NoResponse]
    /\ writes = [r \in Reqs |-> <<>>]
    /\ overlap = [r \in Reqs |-> FALSE]

Init ==
    /\ ServerInit
    /\ text_in = <<>>
    /\ text_out = <<>>
    /\ strip_pc = "off"

RECURSIVE SumLen(_, _)
SumLen(f, S) ==
    IF S = {} THEN 0
    ELSE LET x == CHOOSE y \in S : TRUE IN Len(f[x]) + SumLen(f, S \ {x})

\* The number of writes the agent calls have made so far.
TotalWrites == SumLen(writes, Reqs)

\* ------------------------------------------------------ the event loop
\* The event loop runs one handler at a time, from its start or from the
\* point where it was resumed to its next await or its return. Requests are
\* numbered in the order the loop takes them.
Ready(r) ==
    /\ pc[r] = "new"
    /\ loopRunning = 0
    /\ \A s \in Reqs : s < r => pc[s] # "new"

\* home(): returns the form page; it never suspends.
home(r) ==
    /\ Ready(r)
    /\ kind' = [kind EXCEPT ![r] = "home"]
    /\ response' = [response EXCEPT
                      ![r] = [status |-> StatusOK, page |-> "form", result |-> <<>>]]
    /\ pc' = [pc EXCEPT ![r] = "responded"]
    /\ UNCHANGED <<loopRunning, bridgeVars, stripVars>>

\* Mutant: get_agent_response is called on the event loop itself, which the
\* handler then holds until the call is over.
LoopAfterOffload_Held(r) == r

\* Who holds the event loop once search() has handed get_agent_response to
\* the executor and awaits the future (line 141): nobody, the await gives
\* the loop back.
LoopAfterOffload(r) == 0

\* search(), lines 138-141, up to the await.
search_offload(r) ==
    /\ Ready(r)
    /\ kind' = [kind EXCEPT ![r] = "search"]
    /\ pc' = [pc EXCEPT ![r] = "awaiting"]
    /\ loopRunning' = LoopAfterOffload(r)
    /\ UNCHANGED <<response, bridgeVars, stripVars>>

\* Mutant: the error text without the error's message.
DispatchResult_NoMessage(e, returned) ==
    IF e # <<>> THEN ErrorPrefix
    ELSE IF PyStrip(returned) = <<>> THEN Fallback
    ELSE returned

\* Mutant: result = result.strip()
DispatchResult_Trimmed(e, returned) ==
    IF e # <<>> THEN ErrorPrefix \o e[1]
    ELSE IF PyStrip(returned) = <<>> THEN Fallback
    ELSE PyStrip(returned)

\* Mutant: `if not result:`, without strip().
DispatchResult_EmptyOnly(e, returned) ==
    IF e # <<>> THEN ErrorPrefix \o e[1]
    ELSE IF returned = <<>> THEN Fallback
    ELSE returned

\* Lines 141-145 once the awaited future is done: with the error e it holds,
\* f"An error occurred: {e}"; else the text it returned, or the fallback
\* when not result.strip().
DispatchResult(e, returned) ==
    IF e # <<>> THEN ErrorPrefix \o e[1]
    ELSE IF PyStrip(returned) = <<>> THEN Fallback
    ELSE returned

\* search(), lines 141-168: the event loop resumes the handler when the
\* future is done; it builds the page around result and returns it.
search_resume(r) ==
    /\ pc[r] = "future_done"
    /\ loopRunning \in {0, r}
    /\ response' = [response EXCEPT
                      ![r] = [status |-> StatusOK, page |-> "results",
                              result |-> DispatchResult(exc[r], clean_output[r])]]
    /\ pc' = [pc EXCEPT ![r] = "responded"]
    /\ loopRunning' = 0
    /\ UNCHANGED <<kind, bridgeVars, stripVars>>

\* ------------------------------- get_agent_response, on an executor thread
\* Lines 84-85: an executor thread starts the call; capture = io.StringIO();
\* old_stdout = sys.stdout. (The default executor has at least five threads,
\* more than the requests of a run.)
bridge_enter(r) ==
    /\ pc[r] = "awaiting"
    /\ pc' = [pc EXCEPT ![r] = "entered"]
    /\ capture' = [capture EXCEPT ![r] = <<>>]
    /\ old_stdout' = [old_stdout EXCEPT ![r] = sys_stdout]
    /\ overlap' = [s \in Reqs |->
                     IF s = r THEN \E o \in Reqs \ {r} : pc[o] \in Active
                     ELSE overlap[s] \/ pc[s] \in Active]
    /\ UNCHANGED <<loopVars, sys_stdout, exc, raw_output, clean_output, writes,
                   stripVars>>

\* Line 86: sys.stdout = capture
bridge_redirect(r) ==
    /\ pc[r] = "entered"
    /\ sys_stdout' = r
    /\ pc' = [pc EXCEPT ![r] = "capturing"]
    /\ UNCHANGED <<loopVars, capture, old_stdout, exc, raw_output, clean_output,
                   writes, overlap, stripVars>>

\* Mutant: the agent call writes to a stream it bound before the redirection.
WriteTarget_Bound(r) == old_stdout[r]

\* The stream a write of the agent call goes to: sys.stdout, looked up at the
\* moment of the write.
WriteTarget(r) == sys_stdout

\* Line 89, one write of print_response. Text written to the console is not
\* kept.
agent_write(r, chunk) ==
    /\ pc[r] = "capturing"
    /\ TotalWrites < MaxWrites
    /\ writes' = [writes EXCEPT ![r] = Append(@, chunk)]
    /\ capture' = IF WriteTarget(r) = Console THEN capture
                  ELSE [capture EXCEPT ![WriteTarget(r)] = @ \o chunk]
    /\ UNCHANGED <<pc, loopVars, sys_stdout, old_stdout, exc, raw_output,
                   clean_output, overlap, stripVars>>

\* Line 89: print_response returns.
agent_return(r) ==
    /\ pc[r] = "capturing"
    /\ pc' = [pc EXCEPT ![r] = "agent_done"]
    /\ UNCHANGED <<loopVars, bridgeVars, stripVars>>

\* Line 89: print_response raises an Exception e with str(e) = m.
agent_raise(r, m) ==
    /\ pc[r] = "capturing"
    /\ exc' = [exc EXCEPT ![r] = <<m>>]
    /\ pc' = [pc EXCEPT ![r] = "agent_done"]
    /\ UNCHANGED <<loopVars, sys_stdout, capture, old_stdout, raw_output,
                   clean_output, writes, overlap, stripVars>>

\* Mutant: the restoration follows the call instead of being in a finally
\* block, so an error skips it.
Restores_OnSuccessOnly(e) == e = <<>>

\* Whether line 91 runs when the agent call ended with error e (<<>>: it
\* returned): it is in a finally block, so always.
Restores(e) == TRUE

\* Lines 90-91: finally: sys.stdout = old_stdout
bridge_finally(r) ==
    /\ pc[r] = "agent_done"
    /\ sys_stdout' = IF Restores(exc[r]) THEN old_stdout[r] ELSE sys_stdout
    /\ pc' = [pc EXCEPT ![r] = "restored"]
    /\ UNCHANGED <<loopVars, capture, old_stdout, exc, raw_output, clean_output,
                   writes, overlap, stripVars>>

\* Lines 93-96: raw_output = capture.getvalue(); the sanitized text is the
\* future's result.
bridge_return(r) ==
    /\ pc[r] = "restored"
    /\ exc[r] = <<>>
    /\ raw_output' = [raw_output EXCEPT ![r] = capture[r]]
    /\ clean_output' = [clean_output EXCEPT ![r] = strip_ansi_codes(capture[r])]
    /\ pc' = [pc EXCEPT ![r] = "future_done"]
    /\ UNCHANGED <<loopVars, sys_stdout, capture, old_stdout, exc, writes,
                   overlap, stripVars>>

\* After the finally block the error leaves get_agent_response and becomes
\* the future's exception.
bridge_propagate(r) ==
    /\ pc[r] = "restored"
    /\ exc[r] # <<>>
    /\ pc' = [pc EXCEPT ![r] = "future_done"]
    /\ UNCHANGED <<loopVars, bridgeVars, stripVars>>

LoopStep(r) ==
    \/ home(r)
    \/ search_offload(r)
    \/ search_resume(r)

ThreadStep(r) ==
    \/ bridge_enter(r)
    \/ bridge_redirect(r)
    \/ bridge_finally(r)
    \/ bridge_return(r)
    \/ bridge_propagate(r)

AgentStep(r) ==
    \/ \E chunk \in Chunks : agent_write(r, chunk)
    \/ agent_return(r)
    \/ \E m \in Messages : agent_raise(r, m)

Next == \E r \in Reqs : LoopStep(r) \/ ThreadStep(r) \/ AgentStep(r)

Spec == Init /\ [][Next]_vars

\* The event loop runs every ready handler and the operating system runs
\* every executor thread; nothing makes the agent call finish.
FairSpec ==
    /\ Spec
    /\ \A r \in Reqs : WF_vars(search_resume(r))
    /\ \A r \in Reqs : WF_vars(ThreadStep(r))

\* ------------------------------------------- the sanitizer on its own
\* Every text over Alphabet of at most MaxLen characters.
Texts == UNION { [1..n -> Alphabet] : n \in 0..MaxLen }

StripInit ==
    /\ ServerInit
    /\ text_in \in Texts
    /\ text_out = <<>>
    /\ strip_pc = "in"

\* One call of strip_ansi_codes.
strip_call ==
    /\ strip_pc = "in"
    /\ text_out' = strip_ansi_codes(text_in)
    /\ strip_pc' = "out"
    /\ UNCHANGED <<pc, loopVars, bridgeVars, text_in>>

StripNext == strip_call

StripSpec == StripInit /\ [][StripNext]_vars

\* ============================================================ properties
\* The specification's reading of an escape sequence: ESC, '[', parameter
\* characters '0'..'?', intermediate characters ' '..'/', one final
\* character '@'..'~', at positions i..j of text.
IsSequence(text, i, j) ==
    /\ i >= 1 /\ i + 1 < j /\ j <= Len(text)
    /\ text[i] = 27
    /\ text[i + 1] = 91
    /\ text[j] \in 64..126
    /\ \E m \in (i + 1)..(j - 1) :
          /\ \A k \in (i + 2)..m : text[k] \in 48..63
          /\ \A k \in (m + 1)..(j - 1) : text[k] \in 32..47

\* The positions of text that lie in an escape sequence.
InSequence(text) ==
    { k \in 1..Len(text) :
        \E i \in 1..k : \E j \in k..Len(text) : IsSequence(text, i, j) }

\* text without the characters at the positions in Drop, the rest in order.
Without(text, Drop) ==
    LET Keep == (1..Len(text)) \ Drop
        Nth(n) == CHOOSE k \in Keep : Cardinality({ x \in Keep : x <= k }) = n
    IN [n \in 1..Cardinality(Keep) |-> text[Nth(n)]]

HasSequence(text) == InSequence(text) # {}

AllWhitespace(text) == \A i \in 1..Len(text) : text[i] \in PyWhitespace

\* "An error occurred: ", as the specification spells it.
SaidErrorPrefix ==
    <<65, 110, 32, 101, 114, 114, 111, 114, 32, 111, 99, 99, 117, 114, 114,
      101, 100, 58, 32>>
\* "No response received from the agent.", as the specification spells it.
SaidFallback ==
    <<78, 111, 32, 114, 101, 115, 112, 111, 110, 115, 101, 32, 114, 101, 99,
      101, 105, 118, 101, 100, 32, 102, 114, 111, 109, 32, 116, 104, 101, 32,
      97, 103, 101, 110, 116, 46>>

\* A search request that has been answered.
Answered(r) == pc[r] = "responded" /\ kind[r] = "search"

\* C1: when an invocation of get_agent_response that overlapped no other
\* one has passed its finally block, whether the agent call returned or
\* raised, sys.stdout is the stream that was installed when it began. (The
\* error leaves the invocation, towards the future and the handler, only
\* from there: bridge_propagate.)
C1_RestoredAfterInvocation ==
    \A r \in Reqs :
        (pc[r] = "restored" /\ ~overlap[r]) => sys_stdout = old_stdout[r]

\* C1 witness: a failing invocation that overlapped no other one is past
\* its finally block, and sys.stdout is the stream it found.
C1_Witness ==
    \E r \in Reqs :
        /\ pc[r] = "restored" /\ exc[r] # <<>> /\ ~overlap[r]
        /\ sys_stdout = old_stdout[r]

\* C2: a search request whose agent call raised an error with message m is
\* answered with the success status and the text "An error occurred: " m.
C2_ErrorBecomesText ==
    \A r \in Reqs :
        (Answered(r) /\ exc[r] # <<>>)
            => response[r] = [status |-> 200, page |-> "results",
                              result |-> SaidErrorPrefix \o exc[r][1]]

\* C2 witness: the agent call raised "timeout" and the request was answered.
C2_Witness ==
    \E r \in Reqs :
        /\ Answered(r)
        /\ exc[r] = << <<116, 105, 109, 101, 111, 117, 116>> >>
        /\ response[r].status = 200

\* C3: a search request whose agent call returned and whose sanitized text
\* has a non-whitespace character is answered with exactly that text.
C3_TextUnmodified ==
    \A r \in Reqs :
        (Answered(r) /\ exc[r] = <<>> /\ ~AllWhitespace(clean_output[r]))
            => /\ response[r].result = clean_output[r]
               /\ response[r].status = 200

\* C3 witness: the sanitized text " \nHi\n", with whitespace at both ends,
\* is the answer.
C3_Witness ==
    \E r \in Reqs :
        /\ Answered(r) /\ exc[r] = <<>>
        /\ clean_output[r] = <<32, 10, 72, 105, 10>>
        /\ response[r].result = <<32, 10, 72, 105, 10>>

\* C4: a search request whose agent call returned and whose sanitized text
\* is empty or all whitespace is answered with the fixed fallback text.
C4_FallbackWhenBlank ==
    \A r \in Reqs :
        (Answered(r) /\ exc[r] = <<>> /\ AllWhitespace(clean_output[r]))
            => /\ response[r].result = SaidFallback
               /\ response[r].status = 200

\* C4 witness: the capture held an escape sequence and whitespace only, the
\* sanitized text is " \n", and the answer is the fallback.
C4_Witness ==
    \E r \in Reqs :
        /\ Answered(r) /\ exc[r] = <<>>
        /\ raw_output[r] = <<27, 91, 49, 109, 32, 10>>
        /\ clean_output[r] = <<32, 10>>
        /\ response[r].result = SaidFallback

\* C5: strip_ansi_codes returns its input without the characters of its
\* escape sequences, every other character kept in order; a text with no
\* escape sequence is returned unchanged.
C5_RemovesExactlySequences ==
    strip_pc = "out" =>
        /\ text_out = Without(text_in, InSequence(text_in))
        /\ (~HasSequence(text_in) => text_out = text_in)

\* C5 witness: "\n\x1b[;m " has become "\n ".
C5_Witness ==
    /\ strip_pc = "out"
    /\ text_in = <<10, 27, 91, 59, 109, 32>>
    /\ text_out = <<10, 32>>

\* C6: the output of strip_ansi_codes holds no escape sequence.
C6_NoSequenceRemains ==
    strip_pc = "out" => ~HasSequence(text_out)

\* C7: at most one invocation of get_agent_response is between redirecting
\* sys.stdout and restoring it.
C7_Serialized ==
    Cardinality({ r \in Reqs : pc[r] \in CaptureRegion }) <= 1

\* C8: captured text can leak between two concurrent requests (the witness);
\* it does so only between invocations that overlap: an invocation that
\* overlapped no other one returns exactly the text its own agent call wrote.
C8_OnlyOverlapCorrupts ==
    \A r \in Reqs :
        (pc[r] \in {"future_done", "responded"} /\ kind[r] = "search"
            /\ exc[r] = <<>> /\ ~overlap[r])
            => raw_output[r] = Flatten(writes[r])

\* C8 witness: of two answered search requests, r's agent call wrote nothing
\* and s's wrote "Hi\n"; r's invocation captured "Hi\n" and r was answered
\* with it, while s's invocation captured nothing.
C8_Witness ==
    \E r, s \in Reqs :
        /\ r # s /\ Answered(r) /\ Answered(s)
        /\ exc[r] = <<>> /\ exc[s] = <<>>
        /\ writes[r] = <<>>
        /\ writes[s] = << <<72, 105, 10>> >>
        /\ raw_output[r] = <<72, 105, 10>>
        /\ raw_output[s] = <<>>
        /\ response[r].result = <<72, 105, 10>>

\* A request whose get_agent_response call has been handed to the executor
\* and whose handler is suspended on it.
Suspended(r) == pc[r] \in {"awaiting"} \cup Active

\* C9: while a search request is suspended on its offloaded call the event
\* loop is not held by it and can start the handler, home or search, of the
\* next request; and every request whose agent call has ended is answered.
C9_LoopStaysResponsive ==
    /\ [](\A r \in Reqs : Suspended(r) => loopRunning # r)
    /\ [](\A r, s \in Reqs :
            (Suspended(r) /\ pc[s] = "new" /\ \A t \in Reqs : t < s => pc[t] # "new")
                => (ENABLED home(s) /\ ENABLED search_offload(s)))
    /\ \A r \in Reqs : (pc[r] = "agent_done") ~> (pc[r] = "responded")

\* C9 witness: a later request was answered while an earlier one was still
\* inside its agent call.
C9_Witness ==
    \E r, s \in Reqs :
        /\ r < s
        /\ pc[r] = "capturing"
        /\ pc[s] = "responded"

\* C10: when no invocation of get_agent_response is running, sys.stdout is
\* the stream installed at start-up.
C10_StdoutOriginalWhenIdle ==
    (\A r \in Reqs : pc[r] \notin Active) => sys_stdout = Console

=============================================================================
